---- MODULE Spec2Model ----
(***************************************************************************)
(* machrir::CircularBuffer: a lock-free single-producer/single-consumer    *)
(* byte ring buffer (CircularBuffer.cpp / CircularBuffer.hpp).             *)
(*                                                                         *)
(* One producer thread calls write(), one consumer thread calls read().    *)
(* Every shared-memory access of a call is one step of the model: each     *)
(* atomic cursor load, each byte moved by memcpy, and the cursor store.    *)
(* reset() is a single step that is taken only when no call is in flight;  *)
(* a reset() that does not wait for that is taken step by step instead.    *)
(*                                                                         *)
(* Each thread publishes its cursor with a release store (lines 36, 61)    *)
(* and loads the other thread's cursor with an acquire load (lines 73,     *)
(* 85), so the bytes a thread moved before its store are visible to        *)
(* whoever loads the stored value: the accesses are interleaved in one     *)
(* total order.  With capacity_ = 0 the code runs into an out-of-bounds    *)
(* memcpy and a division by zero; their outcomes are a nondeterministic    *)
(* choice (UBOutcomes).                                                    *)
(***************************************************************************)
EXTENDS Integers, Sequences, FiniteSets

(* ---- bounds of the model ---- *)
MaxCap == 4        \* capacities 0 .. MaxCap are constructed
MaxSize == 3       \* a call passes size in 0 .. MaxSize
MaxTotal == 6      \* the producer's input stream has MaxTotal bytes
SizeBits == 16     \* modelled width of size_t

MaxSeqCap == 8     \* single-threaded runs: capacities 0 .. MaxSeqCap,
MaxSeqSize == 6    \*   sizes 0 .. MaxSeqSize,
MaxSeqTotal == 11  \*   an input stream of MaxSeqTotal bytes

MaxSmallCap == 3   \* runs with a third thread: capacities 1 .. MaxSmallCap,
MaxSmallSize == 2  \*   sizes 0 .. MaxSmallSize,
MaxSmallTotal == 4 \*   an input stream of MaxSmallTotal bytes

MaxRacyCap == 2    \* runs with a racing reset(): capacities 1 .. MaxRacyCap,
MaxRacySize == 2   \*   sizes 0 .. MaxRacySize,
MaxRacyTotal == 3  \*   an input stream of MaxRacyTotal bytes

SizeModulus == 2 ^ SizeBits

Capacities == 0 .. MaxCap
Sizes == 0 .. MaxSize
SeqCapacities == 0 .. MaxSeqCap
SeqSizes == 0 .. MaxSeqSize
SmallCapacities == 1 .. MaxSmallCap
SmallSizes == 0 .. MaxSmallSize
LiveCapacities == 2 .. MaxSmallCap
LiveSizes == 1 .. MaxSmallSize
RacyCapacities == 1 .. MaxRacyCap
RacySizes == 0 .. MaxRacySize

(* ---- size_t arithmetic ---- *)
SizeSub(a, b) == (a - b + SizeModulus) % SizeModulus
SizeAdd(a, b) == (a + b) % SizeModulus
Min(a, b) == IF b < a THEN b ELSE a

(* ---- pure functions of the buffer ---- *)

\* availableRead(), computed from the two loaded cursors
AvailableReadNoWrap(writeIdx, readIdx, cap) == SizeSub(writeIdx, readIdx)

AvailableRead(writeIdx, readIdx, cap) ==
    IF writeIdx >= readIdx
    THEN SizeSub(writeIdx, readIdx)
    ELSE SizeSub(cap, SizeSub(readIdx, writeIdx))

\* availableWrite(), computed from the two loaded cursors
AvailableWriteOffByOne(writeIdx, readIdx, cap) ==
    IF writeIdx >= readIdx
    THEN SizeSub(cap, SizeSub(writeIdx, readIdx))
    ELSE SizeSub(readIdx, writeIdx)

AvailableWrite(writeIdx, readIdx, cap) ==
    IF writeIdx >= readIdx
    THEN SizeSub(SizeSub(cap, SizeSub(writeIdx, readIdx)), 1)
    ELSE SizeSub(SizeSub(readIdx, writeIdx), 1)

\* toWrite / toRead = std::min(size, available)
TransferCountIgnoresAvailable(size, available) == size

TransferCount(size, available) == Min(size, available)

\* firstChunk = std::min(n, capacity_ - idx)
FirstChunkNoWrap(n, idx, cap) == n

FirstChunk(n, idx, cap) == Min(n, SizeSub(cap, idx))

\* The storage index touched by byte i of a two-segment memcpy that starts
\* at cursor idx: buffer_ + idx + i in the first chunk, buffer_ + (i -
\* firstChunk) in the second.
SlotOfSwappedSegments(idx, firstChunk, i) ==
    IF i < firstChunk THEN i ELSE idx + (i - firstChunk)

SlotOf(idx, firstChunk, i) ==
    IF i < firstChunk THEN idx + i ELSE i - firstChunk

\* (idx + n) % capacity_ with capacity_ > 0
NextCursorNoWrap(idx, n, cap) == SizeAdd(idx, n)

NextCursor(idx, n, cap) == SizeAdd(idx, n) % cap

\* std::memset(buffer_, 0, n)
ZeroFillButLast(n) == [i \in 0 .. n - 1 |-> IF i = n - 1 THEN 255 ELSE 0]

ZeroFill(n) == [i \in 0 .. n - 1 |-> 0]

\* The cursor value reset() stores
ResetCursorKeeps(idx) == idx

ResetCursor(idx) == 0

\* Byte k (1-based) of the producer's input stream: a strictly increasing
\* byte sequence, so every byte of the stream is distinguishable.
StreamByte(k) == k

(* ---- state ---- *)
VARIABLES
    phase,        \* "new", "live", "failed" (constructor threw), "trap"
    capacity_,    \* CircularBuffer::capacity_
    buffer_,      \* CircularBuffer::buffer_, a function on 0 .. capacity_-1
    writeIndex_,  \* CircularBuffer::writeIndex_
    readIndex_,   \* CircularBuffer::readIndex_
    overrun,      \* some memcpy has touched memory outside buffer_
    \* producer thread, inside write(data, size)
    wpc, wSize, wAwW, wAwR, wAvail, wToWrite, wWriteIdx, wFirstChunk, wi, wRet,
    \* consumer thread, inside read(data, size)
    rpc, rSize, rArW, rArR, rAvail, rToRead, rReadIdx, rFirstChunk, ri, rRet,
    dest,         \* the caller's destination array of the read() in flight
    \* history
    sent,         \* bytes of the input stream accepted by write() so far
    produced,     \* bytes accepted by write() since construction / reset()
    consumed,     \* bytes returned by read() since construction / reset()
    \* the callers
    trip,         \* "none", or the stage of a write-then-read round trip
    tripN,        \* the size N of the round trip under way
    tripAR,       \* availableRead() when the round trip started
    \* shared-memory accesses made so far by the call in flight
    wLoads, wCopies, wStores, rLoads, rCopies, rStores,
    \* the result of the caller's last own-side availability query
    wSeen,        \* producer: availableWrite(), 0 when it knows nothing
    rSeen,        \* consumer: availableRead(), 0 when it knows nothing
    \* observer thread, inside availableRead() or availableWrite()
    opc, oKind, oW, oRet,
    oTorn,        \* a cursor was published between the observer's two loads
    \* a thread that calls reset() without stopping the other two
    xpc, xi,
    raced         \* some reset() has overlapped a write() or read() call

bufVars == <<phase, capacity_, buffer_, writeIndex_, readIndex_, overrun>>
wVars == <<wpc, wSize, wAwW, wAwR, wAvail, wToWrite, wWriteIdx, wFirstChunk, wi, wRet>>
rVars == <<rpc, rSize, rArW, rArR, rAvail, rToRead, rReadIdx, rFirstChunk, ri, rRet, dest>>
histVars == <<sent, produced, consumed>>
tripVars == <<trip, tripN, tripAR>>
wOps == <<wLoads, wCopies, wStores>>
rOps == <<rLoads, rCopies, rStores>>
qVars == <<wSeen, rSeen>>
oVars == <<opc, oKind, oW, oRet, oTorn>>
xVars == <<xpc, xi, raced>>
vars == <<bufVars, wVars, rVars, histVars, tripVars, wOps, rOps, qVars, oVars, xVars>>

WIdle ==
    /\ wpc = "idle" /\ wSize = 0 /\ wAwW = 0 /\ wAwR = 0 /\ wAvail = 0
    /\ wToWrite = 0 /\ wWriteIdx = 0 /\ wFirstChunk = 0 /\ wi = 0 /\ wRet = 0

RIdle ==
    /\ rpc = "idle" /\ rSize = 0 /\ rArW = 0 /\ rArR = 0 /\ rAvail = 0
    /\ rToRead = 0 /\ rReadIdx = 0 /\ rFirstChunk = 0 /\ ri = 0 /\ rRet = 0
    /\ dest = <<>>

Init ==
    /\ phase = "new"
    /\ capacity_ = 0
    /\ buffer_ = <<>>
    /\ writeIndex_ = 0
    /\ readIndex_ = 0
    /\ overrun = FALSE
    /\ WIdle
    /\ RIdle
    /\ sent = 0
    /\ produced = <<>>
    /\ consumed = <<>>
    /\ trip = "none"
    /\ tripN = 0
    /\ tripAR = 0
    /\ wLoads = 0 /\ wCopies = 0 /\ wStores = 0
    /\ rLoads = 0 /\ rCopies = 0 /\ rStores = 0
    /\ wSeen = 0 /\ rSeen = 0
    /\ opc = "idle" /\ oKind = "none" /\ oW = 0 /\ oRet = 0 /\ oTorn = FALSE
    /\ xpc = "idle" /\ xi = 0 /\ raced = FALSE

Quiescent == phase = "live" /\ wpc = "idle" /\ rpc = "idle"

(* ---- construction ---- *)

\* CircularBuffer(capacity): posix_memalign succeeded, storage zero-filled
Construct(capacity) ==
    /\ phase = "new"
    /\ phase' = "live"
    /\ capacity_' = capacity
    /\ writeIndex_' = 0
    /\ readIndex_' = 0
    /\ buffer_' = ZeroFill(capacity)
    /\ UNCHANGED <<overrun, wVars, rVars, histVars>>
    /\ UNCHANGED tripVars
    /\ UNCHANGED <<wOps, rOps, qVars, oVars, xVars>>

\* A constructor that ignores the failure of posix_memalign: the object
\* exists, with its capacity set and no storage behind buffer_
ConstructThrowIgnored ==
    /\ phase = "new"
    /\ phase' = "live"
    /\ \E c \in 1 .. 2 : capacity_' = c
    /\ UNCHANGED <<buffer_, writeIndex_, readIndex_, overrun,
                   wVars, rVars, histVars>>
    /\ UNCHANGED tripVars
    /\ UNCHANGED <<wOps, rOps, qVars, oVars, xVars>>

\* CircularBuffer(capacity): posix_memalign failed, std::bad_alloc thrown
ConstructThrow ==
    /\ phase = "new"
    /\ phase' = "failed"
    /\ UNCHANGED <<capacity_, buffer_, writeIndex_, readIndex_, overrun,
                   wVars, rVars, histVars>>
    /\ UNCHANGED tripVars
    /\ UNCHANGED <<wOps, rOps, qVars, oVars, xVars>>

\* What circular_buffer_create has returned: nothing yet, the null handle
\* of its catch (...) branch, or the pointer to the new object
Handle ==
    CASE phase = "new" -> "none"
      [] phase = "failed" -> "null"
      [] OTHER -> "object"

(* ---- undefined behaviour ---- *)

\* What a build can do on an out-of-bounds memcpy or a division by zero:
\* the process dies, or execution goes on.
UBOutcomes == {"trap", "continue"}

\* Bytes an out-of-bounds load can yield
IndeterminateBytes == {0, 255}

(* ---- write(data, size), producer thread ---- *)

\* The producer calls write(data, size); data is the next `size` bytes of
\* the input stream, which has streamLen bytes in all.
WCallBody(size) ==
    /\ phase = "live"
    /\ wpc = "idle"
    /\ wpc' = "aw_w"
    /\ wSize' = size
    /\ UNCHANGED <<wAwW, wAwR, wAvail, wToWrite, wWriteIdx, wFirstChunk, wi, wRet>>
    /\ UNCHANGED <<bufVars, rVars, histVars>>
    /\ raced' = (raced \/ xpc \notin {"idle", "done"})
    /\ UNCHANGED <<wOps, rOps, qVars, oVars, xpc, xi>>

\* An ordinary write() call, made while the other thread does what it likes
WCall(size, streamLen) ==
    /\ trip = "none"
    /\ sent + size <= streamLen
    /\ WCallBody(size)
    /\ UNCHANGED tripVars

\* The callers start a round trip at a quiescent moment: the producer has
\* seen availableWrite() >= n and writes n bytes; the consumer will read n
\* bytes right after that write returns, and nothing else runs meanwhile.
TripWrite(n, streamLen) ==
    /\ Quiescent
    /\ trip = "none"
    /\ sent + n <= streamLen
    /\ n <= AvailableWrite(writeIndex_, readIndex_, capacity_)
    /\ WCallBody(n)
    /\ trip' = "write"
    /\ tripN' = n
    /\ tripAR' = AvailableRead(writeIndex_, readIndex_, capacity_)

\* availableWrite(): writeIndex_.load(relaxed)
WAvailLoadWrite ==
    /\ phase = "live"
    /\ wpc = "aw_w"
    /\ wAwW' = writeIndex_
    /\ wpc' = "aw_r"
    /\ UNCHANGED <<wSize, wAwR, wAvail, wToWrite, wWriteIdx, wFirstChunk, wi, wRet>>
    /\ UNCHANGED <<bufVars, rVars, histVars>>
    /\ UNCHANGED tripVars
    /\ wLoads' = wLoads + 1
    /\ UNCHANGED <<wCopies, wStores, rOps, qVars, oVars, xVars>>

\* A write() that waits for the consumer to free space before it goes on
WAvailLoadReadWaits ==
    /\ phase = "live"
    /\ wpc = "aw_r"
    /\ wSize = 0 \/ AvailableWrite(wAwW, readIndex_, capacity_) >= 1
    /\ wAwR' = readIndex_
    /\ wAvail' = AvailableWrite(wAwW, readIndex_, capacity_)
    /\ wToWrite' = TransferCount(wSize, wAvail')
    /\ IF wToWrite' = 0
       THEN wpc' = "ret" /\ wRet' = 0
       ELSE wpc' = "ld" /\ wRet' = wRet
    /\ UNCHANGED <<wSize, wAwW, wWriteIdx, wFirstChunk, wi>>
    /\ UNCHANGED <<bufVars, rVars, histVars>>
    /\ UNCHANGED tripVars
    /\ wLoads' = wLoads + 1
    /\ UNCHANGED <<wCopies, wStores, rOps, qVars, oVars, xVars>>

\* availableWrite(): readIndex_.load(acquire) and the result; then
\* toWrite = min(size, available) and the early return of write()
WAvailLoadRead ==
    /\ phase = "live"
    /\ wpc = "aw_r"
    /\ wAwR' = readIndex_
    /\ wAvail' = AvailableWrite(wAwW, readIndex_, capacity_)
    /\ wToWrite' = TransferCount(wSize, wAvail')
    /\ IF wToWrite' = 0
       THEN wpc' = "ret" /\ wRet' = 0
       ELSE wpc' = "ld" /\ wRet' = wRet
    /\ UNCHANGED <<wSize, wAwW, wWriteIdx, wFirstChunk, wi>>
    /\ UNCHANGED <<bufVars, rVars, histVars>>
    /\ UNCHANGED tripVars
    /\ wLoads' = wLoads + 1
    /\ UNCHANGED <<wCopies, wStores, rOps, qVars, oVars, xVars>>

\* A write() that publishes the new cursor before it copies the bytes
WLoadIndexPublishesFirst ==
    /\ phase = "live"
    /\ wpc = "ld"
    /\ capacity_ >= 1
    /\ wWriteIdx' = writeIndex_
    /\ wFirstChunk' = FirstChunk(wToWrite, writeIndex_, capacity_)
    /\ wi' = 0
    /\ wpc' = IF wToWrite = 0 THEN "store" ELSE "copy"
    /\ writeIndex_' = NextCursor(writeIndex_, wToWrite, capacity_)
    /\ UNCHANGED <<wSize, wAwW, wAwR, wAvail, wToWrite, wRet>>
    /\ UNCHANGED <<phase, capacity_, buffer_, readIndex_, overrun, rVars, histVars>>
    /\ UNCHANGED tripVars
    /\ wLoads' = wLoads + 1
    /\ UNCHANGED <<wCopies, wStores, rOps, qVars, oVars, xVars>>

\* writeIdx = writeIndex_.load(relaxed); firstChunk
WLoadIndex ==
    /\ phase = "live"
    /\ wpc = "ld"
    /\ wWriteIdx' = writeIndex_
    /\ wFirstChunk' = FirstChunk(wToWrite, writeIndex_, capacity_)
    /\ wi' = 0
    /\ wpc' = IF wToWrite = 0 THEN "store" ELSE "copy"
    /\ UNCHANGED <<wSize, wAwW, wAwR, wAvail, wToWrite, wRet>>
    /\ UNCHANGED <<bufVars, rVars, histVars>>
    /\ UNCHANGED tripVars
    /\ wLoads' = wLoads + 1
    /\ UNCHANGED <<wCopies, wStores, rOps, qVars, oVars, xVars>>

\* The storage index the next byte of the write's memcpy goes to
WSlot == SlotOf(wWriteIdx, wFirstChunk, wi)

\* One byte of the two memcpy calls of write()
WCopy ==
    /\ phase = "live"
    /\ wpc = "copy"
    /\ wi < wToWrite
    /\ wi' = wi + 1
    /\ IF WSlot \in DOMAIN buffer_
       THEN /\ buffer_' = [buffer_ EXCEPT ![WSlot] = StreamByte(sent + 1 + wi)]
            /\ UNCHANGED <<phase, overrun>>
       ELSE /\ overrun' = TRUE
            /\ \E o \in UBOutcomes : phase' = IF o = "trap" THEN "trap" ELSE phase
            /\ UNCHANGED buffer_
    /\ wpc' = IF wi' = wToWrite THEN "store" ELSE "copy"
    /\ UNCHANGED <<wSize, wAwW, wAwR, wAvail, wToWrite, wWriteIdx, wFirstChunk, wRet>>
    /\ UNCHANGED <<capacity_, writeIndex_, readIndex_, rVars, histVars>>
    /\ UNCHANGED tripVars
    /\ wCopies' = wCopies + 1
    /\ UNCHANGED <<wLoads, wStores, rOps, qVars, oVars, xVars>>

\* writeIndex_.store(...) aimed at the consumer's cursor instead
WStoreWrongCursor ==
    /\ phase = "live"
    /\ wpc = "store"
    /\ capacity_ >= 1
    /\ readIndex_' = NextCursor(wWriteIdx, wToWrite, capacity_)
    /\ wRet' = wToWrite
    /\ wpc' = "ret"
    /\ sent' = sent + wToWrite
    /\ produced' = produced \o [k \in 1 .. wToWrite |-> StreamByte(sent + k)]
    /\ UNCHANGED <<wSize, wAwW, wAwR, wAvail, wToWrite, wWriteIdx, wFirstChunk, wi>>
    /\ UNCHANGED <<phase, capacity_, buffer_, writeIndex_, overrun, rVars, consumed>>
    /\ UNCHANGED tripVars
    /\ wStores' = wStores + 1
    /\ oTorn' = (oTorn \/ opc = "ld_r")
    /\ UNCHANGED <<wLoads, wCopies, rOps, qVars, opc, oKind, oW, oRet, xVars>>

\* writeIndex_.store((writeIdx + toWrite) % capacity_, release); return toWrite
WStore ==
    /\ phase = "live"
    /\ wpc = "store"
    /\ IF capacity_ = 0
       THEN \E o \in UBOutcomes :
               IF o = "trap"
               THEN phase' = "trap" /\ UNCHANGED writeIndex_
               ELSE phase' = phase /\ writeIndex_' = SizeAdd(wWriteIdx, wToWrite)
       ELSE /\ writeIndex_' = NextCursor(wWriteIdx, wToWrite, capacity_)
            /\ UNCHANGED phase
    /\ wRet' = wToWrite
    /\ wpc' = "ret"
    /\ sent' = sent + wToWrite
    /\ produced' = produced \o [k \in 1 .. wToWrite |-> StreamByte(sent + k)]
    /\ UNCHANGED <<wSize, wAwW, wAwR, wAvail, wToWrite, wWriteIdx, wFirstChunk, wi>>
    /\ UNCHANGED <<capacity_, buffer_, readIndex_, overrun, rVars, consumed>>
    /\ UNCHANGED tripVars
    /\ wStores' = wStores + 1
    /\ oTorn' = (oTorn \/ opc = "ld_r")
    /\ UNCHANGED <<wLoads, wCopies, rOps, qVars, opc, oKind, oW, oRet, xVars>>

\* The caller has the return value; the producer is idle again.
WReturn ==
    /\ phase = "live"
    /\ wpc = "ret"
    /\ wpc' = "idle" /\ wSize' = 0 /\ wAwW' = 0 /\ wAwR' = 0 /\ wAvail' = 0
    /\ wToWrite' = 0 /\ wWriteIdx' = 0 /\ wFirstChunk' = 0 /\ wi' = 0 /\ wRet' = 0
    /\ trip' = IF trip = "write" THEN "read" ELSE trip
    /\ UNCHANGED <<bufVars, rVars, histVars, tripN, tripAR>>
    /\ wLoads' = 0 /\ wCopies' = 0 /\ wStores' = 0
    /\ wSeen' = 0
    /\ UNCHANGED <<rOps, rSeen, oVars, xVars>>

(* ---- read(data, size), consumer thread ---- *)

\* The consumer calls read(data, size) with a cleared destination array.
RCallBody(size) ==
    /\ phase = "live"
    /\ rpc = "idle"
    /\ rpc' = "ar_w"
    /\ rSize' = size
    /\ dest' = [k \in 1 .. size |-> 0]
    /\ UNCHANGED <<rArW, rArR, rAvail, rToRead, rReadIdx, rFirstChunk, ri, rRet>>
    /\ UNCHANGED <<bufVars, wVars, histVars>>
    /\ raced' = (raced \/ xpc \notin {"idle", "done"})
    /\ UNCHANGED <<wOps, rOps, qVars, oVars, xpc, xi>>

\* An ordinary read() call, made while the other thread does what it likes
RCall(size) ==
    /\ trip = "none"
    /\ RCallBody(size)
    /\ UNCHANGED tripVars

\* The read of a round trip: size tripN, right after the write returned
TripRead ==
    /\ trip = "read"
    /\ wpc = "idle"
    /\ RCallBody(tripN)
    /\ trip' = "reading"
    /\ UNCHANGED <<tripN, tripAR>>

\* availableRead(): writeIndex_.load(acquire)
RAvailLoadWrite ==
    /\ phase = "live"
    /\ rpc = "ar_w"
    /\ rArW' = writeIndex_
    /\ rpc' = "ar_r"
    /\ UNCHANGED <<rSize, rArR, rAvail, rToRead, rReadIdx, rFirstChunk, ri, rRet, dest>>
    /\ UNCHANGED <<bufVars, wVars, histVars>>
    /\ UNCHANGED tripVars
    /\ rLoads' = rLoads + 1
    /\ UNCHANGED <<rCopies, rStores, wOps, qVars, oVars, xVars>>

\* availableRead(): readIndex_.load(relaxed) and the result; then
\* toRead = min(size, available) and the early return of read()
RAvailLoadRead ==
    /\ phase = "live"
    /\ rpc = "ar_r"
    /\ rArR' = readIndex_
    /\ rAvail' = AvailableRead(rArW, readIndex_, capacity_)
    /\ rToRead' = TransferCount(rSize, rAvail')
    /\ IF rToRead' = 0
       THEN rpc' = "ret" /\ rRet' = 0
       ELSE rpc' = "ld" /\ rRet' = rRet
    /\ UNCHANGED <<rSize, rArW, rReadIdx, rFirstChunk, ri, dest>>
    /\ UNCHANGED <<bufVars, wVars, histVars>>
    /\ UNCHANGED tripVars
    /\ rLoads' = rLoads + 1
    /\ UNCHANGED <<rCopies, rStores, wOps, qVars, oVars, xVars>>

\* readIdx = readIndex_.load(relaxed); firstChunk
RLoadIndex ==
    /\ phase = "live"
    /\ rpc = "ld"
    /\ rReadIdx' = readIndex_
    /\ rFirstChunk' = FirstChunk(rToRead, readIndex_, capacity_)
    /\ ri' = 0
    /\ rpc' = IF rToRead = 0 THEN "store" ELSE "copy"
    /\ UNCHANGED <<rSize, rArW, rArR, rAvail, rToRead, rRet, dest>>
    /\ UNCHANGED <<bufVars, wVars, histVars>>
    /\ UNCHANGED tripVars
    /\ rLoads' = rLoads + 1
    /\ UNCHANGED <<rCopies, rStores, wOps, qVars, oVars, xVars>>

\* The storage index the next byte of the read's memcpy comes from
RSlot == SlotOf(rReadIdx, rFirstChunk, ri)

\* One byte of the two memcpy calls of read()
RCopy ==
    /\ phase = "live"
    /\ rpc = "copy"
    /\ ri < rToRead
    /\ ri' = ri + 1
    /\ IF RSlot \in DOMAIN buffer_
       THEN /\ dest' = [dest EXCEPT ![ri + 1] = buffer_[RSlot]]
            /\ UNCHANGED <<phase, overrun>>
       ELSE /\ overrun' = TRUE
            /\ \E o \in UBOutcomes : phase' = IF o = "trap" THEN "trap" ELSE phase
            /\ \E b \in IndeterminateBytes : dest' = [dest EXCEPT ![ri + 1] = b]
    /\ rpc' = IF ri' = rToRead THEN "store" ELSE "copy"
    /\ UNCHANGED <<rSize, rArW, rArR, rAvail, rToRead, rReadIdx, rFirstChunk, rRet>>
    /\ UNCHANGED <<capacity_, buffer_, writeIndex_, readIndex_, wVars, histVars>>
    /\ UNCHANGED tripVars
    /\ rCopies' = rCopies + 1
    /\ UNCHANGED <<rLoads, rStores, wOps, qVars, oVars, xVars>>

\* readIndex_.store((readIdx + toRead) % capacity_, release); return toRead
RStore ==
    /\ phase = "live"
    /\ rpc = "store"
    /\ IF capacity_ = 0
       THEN \E o \in UBOutcomes :
               IF o = "trap"
               THEN phase' = "trap" /\ UNCHANGED readIndex_
               ELSE phase' = phase /\ readIndex_' = SizeAdd(rReadIdx, rToRead)
       ELSE /\ readIndex_' = NextCursor(rReadIdx, rToRead, capacity_)
            /\ UNCHANGED phase
    /\ rRet' = rToRead
    /\ rpc' = "ret"
    /\ consumed' = consumed \o SubSeq(dest, 1, rToRead)
    /\ UNCHANGED <<rSize, rArW, rArR, rAvail, rToRead, rReadIdx, rFirstChunk, ri, dest>>
    /\ UNCHANGED <<capacity_, buffer_, writeIndex_, overrun, wVars, sent, produced>>
    /\ UNCHANGED tripVars
    /\ rStores' = rStores + 1
    /\ oTorn' = (oTorn \/ opc = "ld_r")
    /\ UNCHANGED <<rLoads, rCopies, wOps, qVars, opc, oKind, oW, oRet, xVars>>

\* The caller has the return value and the bytes; the consumer is idle again.
RReturn ==
    /\ phase = "live"
    /\ rpc = "ret"
    /\ rpc' = "idle" /\ rSize' = 0 /\ rArW' = 0 /\ rArR' = 0 /\ rAvail' = 0
    /\ rToRead' = 0 /\ rReadIdx' = 0 /\ rFirstChunk' = 0 /\ ri' = 0 /\ rRet' = 0
    /\ dest' = <<>>
    /\ trip' = IF trip = "reading" THEN "none" ELSE trip
    /\ tripN' = IF trip = "reading" THEN 0 ELSE tripN
    /\ tripAR' = IF trip = "reading" THEN 0 ELSE tripAR
    /\ UNCHANGED <<bufVars, wVars, histVars>>
    /\ rLoads' = 0 /\ rCopies' = 0 /\ rStores' = 0
    /\ rSeen' = 0
    /\ UNCHANGED <<wOps, wSeen, oVars, xVars>>

\* The steps of a write() call in flight / of a read() call in flight
InCall == {"aw_w", "aw_r", "ld", "copy", "store", "ret"}

WriteStep ==
    WAvailLoadWrite \/ WAvailLoadRead \/ WLoadIndex \/ WCopy \/ WStore \/ WReturn

ReadStep ==
    RAvailLoadWrite \/ RAvailLoadRead \/ RLoadIndex \/ RCopy \/ RStore \/ RReturn

(* ---- reset() ---- *)

\* reset(), called when both threads are stopped (CircularBuffer.hpp:28):
\* both cursors to 0, storage zero-filled.  What was written before is
\* discarded, so the histories start again.
Reset ==
    /\ Quiescent
    /\ trip = "none"
    /\ writeIndex_' = ResetCursor(writeIndex_)
    /\ readIndex_' = ResetCursor(readIndex_)
    /\ buffer_' = ZeroFill(capacity_)
    /\ produced' = <<>>
    /\ consumed' = <<>>
    /\ UNCHANGED <<phase, capacity_, overrun, wVars, rVars, sent, tripVars>>
    /\ wSeen' = 0 /\ rSeen' = 0
    /\ oTorn' = (oTorn \/ opc = "ld_r")
    /\ UNCHANGED <<wOps, rOps, opc, oKind, oW, oRet, xVars>>

(* ---- availableWrite() / availableRead() called by the owning side ---- *)

\* The producer, between two write() calls, calls availableWrite():
\* writeIndex_.load(relaxed)
WQueryLoadWrite ==
    /\ phase = "live"
    /\ wpc = "idle"
    /\ trip = "none"
    /\ wpc' = "q_r"
    /\ wAwW' = writeIndex_
    /\ UNCHANGED <<wSize, wAwR, wAvail, wToWrite, wWriteIdx, wFirstChunk, wi, wRet>>
    /\ UNCHANGED <<bufVars, rVars, histVars, tripVars>>
    /\ UNCHANGED <<wOps, rOps, qVars, oVars, xVars>>

\* ... readIndex_.load(acquire), and the producer keeps the result
WQueryLoadRead ==
    /\ phase = "live"
    /\ wpc = "q_r"
    /\ wSeen' = AvailableWrite(wAwW, readIndex_, capacity_)
    /\ wpc' = "idle"
    /\ wAwW' = 0
    /\ UNCHANGED <<wSize, wAwR, wAvail, wToWrite, wWriteIdx, wFirstChunk, wi, wRet>>
    /\ UNCHANGED <<bufVars, rVars, histVars, tripVars>>
    /\ UNCHANGED <<wOps, rOps, rSeen, oVars, xVars>>

\* The consumer, between two read() calls, calls availableRead():
\* writeIndex_.load(acquire)
RQueryLoadWrite ==
    /\ phase = "live"
    /\ rpc = "idle"
    /\ trip = "none"
    /\ rpc' = "q_r"
    /\ rArW' = writeIndex_
    /\ UNCHANGED <<rSize, rArR, rAvail, rToRead, rReadIdx, rFirstChunk, ri, rRet, dest>>
    /\ UNCHANGED <<bufVars, wVars, histVars, tripVars>>
    /\ UNCHANGED <<wOps, rOps, qVars, oVars, xVars>>

\* ... readIndex_.load(relaxed), and the consumer keeps the result
RQueryLoadRead ==
    /\ phase = "live"
    /\ rpc = "q_r"
    /\ rSeen' = AvailableRead(rArW, readIndex_, capacity_)
    /\ rpc' = "idle"
    /\ rArW' = 0
    /\ UNCHANGED <<rSize, rArR, rAvail, rToRead, rReadIdx, rFirstChunk, ri, rRet, dest>>
    /\ UNCHANGED <<bufVars, wVars, histVars, tripVars>>
    /\ UNCHANGED <<wOps, rOps, wSeen, oVars, xVars>>

(* ---- availableRead() / availableWrite() called by an observer thread ---- *)

\* Which query the observer calls
QueryKinds == {"read", "write"}

\* A thread that is neither in write() nor in read() calls availableRead()
\* or availableWrite()
OCall(kind) ==
    /\ phase = "live"
    /\ opc = "idle"
    /\ opc' = "ld_w"
    /\ oKind' = kind
    /\ UNCHANGED <<oW, oRet, oTorn>>
    /\ UNCHANGED <<bufVars, wVars, rVars, histVars, tripVars, wOps, rOps, qVars, xVars>>

\* writeIndex_.load(...), the first load of either query
OLoadWrite ==
    /\ phase = "live"
    /\ opc = "ld_w"
    /\ oW' = writeIndex_
    /\ opc' = "ld_r"
    /\ UNCHANGED <<oKind, oRet, oTorn>>
    /\ UNCHANGED <<bufVars, wVars, rVars, histVars, tripVars, wOps, rOps, qVars, xVars>>

\* readIndex_.load(...), the second load, and the result
OLoadRead ==
    /\ phase = "live"
    /\ opc = "ld_r"
    /\ oRet' = IF oKind = "read"
               THEN AvailableRead(oW, readIndex_, capacity_)
               ELSE AvailableWrite(oW, readIndex_, capacity_)
    /\ opc' = "ret"
    /\ UNCHANGED <<oKind, oW, oTorn>>
    /\ UNCHANGED <<bufVars, wVars, rVars, histVars, tripVars, wOps, rOps, qVars, xVars>>

\* The observer has the value.
OReturn ==
    /\ phase = "live"
    /\ opc = "ret"
    /\ opc' = "idle" /\ oKind' = "none" /\ oW' = 0 /\ oRet' = 0 /\ oTorn' = FALSE
    /\ UNCHANGED <<bufVars, wVars, rVars, histVars, tripVars, wOps, rOps, qVars, xVars>>

(* ---- reset(), called without stopping the producer and the consumer ---- *)

\* A call of write() or read() is in flight
CallInFlight == wpc # "idle" \/ rpc # "idle"

\* writeIndex_.store(0, relaxed)
XStoreWrite ==
    /\ phase = "live"
    /\ xpc = "idle"
    /\ writeIndex_' = ResetCursor(writeIndex_)
    /\ xpc' = "sr"
    /\ raced' = (raced \/ CallInFlight)
    /\ UNCHANGED <<phase, capacity_, buffer_, readIndex_, overrun>>
    /\ UNCHANGED <<wVars, rVars, histVars, tripVars, wOps, rOps, qVars, oVars, xi>>

\* readIndex_.store(0, relaxed)
XStoreRead ==
    /\ phase = "live"
    /\ xpc = "sr"
    /\ readIndex_' = ResetCursor(readIndex_)
    /\ xpc' = "ms"
    /\ xi' = 0
    /\ raced' = (raced \/ CallInFlight)
    /\ UNCHANGED <<phase, capacity_, buffer_, writeIndex_, overrun>>
    /\ UNCHANGED <<wVars, rVars, histVars, tripVars, wOps, rOps, qVars, oVars>>

\* One byte of std::memset(buffer_, 0, capacity_).  The memset is not
\* ordered with the memcpy of a call in flight: either may hit a slot last.
XMemset ==
    /\ phase = "live"
    /\ xpc = "ms"
    /\ xi < capacity_
    /\ buffer_' = [buffer_ EXCEPT ![xi] = ZeroFill(capacity_)[xi]]
    /\ xi' = xi + 1
    /\ raced' = (raced \/ CallInFlight)
    /\ UNCHANGED <<phase, capacity_, writeIndex_, readIndex_, overrun>>
    /\ UNCHANGED <<wVars, rVars, histVars, tripVars, wOps, rOps, qVars, oVars, xpc>>

\* reset() returns; what was written before it is discarded.  The third
\* thread calls reset() once.
XReturn ==
    /\ phase = "live"
    /\ xpc = "ms"
    /\ xi = capacity_
    /\ xpc' = "done"
    /\ xi' = 0
    /\ raced' = (raced \/ CallInFlight)
    /\ produced' = <<>>
    /\ consumed' = <<>>
    /\ wSeen' = 0 /\ rSeen' = 0
    /\ UNCHANGED <<bufVars, wVars, rVars, sent, tripVars, wOps, rOps, oVars>>

(* ---- specification ---- *)

Next ==
    \/ \E c \in Capacities : Construct(c)
    \/ ConstructThrow
    \/ \E n \in Sizes : WCall(n, MaxTotal)
    \/ \E n \in Sizes : TripWrite(n, MaxTotal)
    \/ WAvailLoadWrite
    \/ WAvailLoadRead
    \/ WLoadIndex
    \/ WCopy
    \/ WStore
    \/ WReturn
    \/ \E n \in Sizes : RCall(n)
    \/ TripRead
    \/ RAvailLoadWrite
    \/ RAvailLoadRead
    \/ RLoadIndex
    \/ RCopy
    \/ RStore
    \/ RReturn
    \/ Reset

\* One producer thread and one consumer thread, freely interleaved
Spec == Init /\ [][Next]_vars

\* Single-threaded use: a call starts only when no other call is in flight.
SeqWCall(size) == rpc = "idle" /\ WCall(size, MaxSeqTotal)

SeqRCall(size) == wpc = "idle" /\ RCall(size)

NextSeq ==
    \/ \E c \in SeqCapacities : Construct(c)
    \/ ConstructThrow
    \/ \E n \in SeqSizes : SeqWCall(n)
    \/ \E n \in SeqSizes : TripWrite(n, MaxSeqTotal)
    \/ WAvailLoadWrite
    \/ WAvailLoadRead
    \/ WLoadIndex
    \/ WCopy
    \/ WStore
    \/ WReturn
    \/ \E n \in SeqSizes : SeqRCall(n)
    \/ TripRead
    \/ RAvailLoadWrite
    \/ RAvailLoadRead
    \/ RLoadIndex
    \/ RCopy
    \/ RStore
    \/ RReturn
    \/ Reset

SpecSeq == Init /\ [][NextSeq]_vars

\* A read() call of a consumer that gives up once it has been handed as
\* many bytes as the input stream holds
RacyRCall(size) ==
    /\ Len(consumed) + size <= MaxRacyTotal
    /\ RCall(size)

\* The producer, the consumer and a third thread that calls reset()
\* whenever it likes
NextRacy ==
    \/ \E c \in RacyCapacities : Construct(c)
    \/ \E n \in RacySizes : WCall(n, MaxRacyTotal)
    \/ WAvailLoadWrite
    \/ WAvailLoadRead
    \/ WLoadIndex
    \/ WCopy
    \/ WStore
    \/ WReturn
    \/ \E n \in RacySizes : RacyRCall(n)
    \/ RAvailLoadWrite
    \/ RAvailLoadRead
    \/ RLoadIndex
    \/ RCopy
    \/ RStore
    \/ RReturn
    \/ XStoreWrite
    \/ XStoreRead
    \/ XMemset
    \/ XReturn

SpecRacy == Init /\ [][NextRacy]_vars

\* The producer and the consumer, each of which may ask for its own side's
\* availability between two calls
NextQuery ==
    \/ \E c \in SmallCapacities : Construct(c)
    \/ \E n \in SmallSizes : WCall(n, MaxSmallTotal)
    \/ WQueryLoadWrite
    \/ WQueryLoadRead
    \/ WAvailLoadWrite
    \/ WAvailLoadRead
    \/ WLoadIndex
    \/ WCopy
    \/ WStore
    \/ WReturn
    \/ \E n \in SmallSizes : RCall(n)
    \/ RQueryLoadWrite
    \/ RQueryLoadRead
    \/ RAvailLoadWrite
    \/ RAvailLoadRead
    \/ RLoadIndex
    \/ RCopy
    \/ RStore
    \/ RReturn
    \/ Reset

SpecQuery == Init /\ [][NextQuery]_vars

\* A producer that has the whole input stream to send: it calls write()
\* with some of the bytes not yet accepted, and calls again with what is
\* left.
LiveWCall(size) ==
    /\ size >= 1
    /\ WCall(size, MaxSmallTotal)

\* A consumer that keeps calling read() with room for at least one byte
LiveRCall(size) ==
    /\ size >= 1
    /\ RCall(size)

\* The steps of the producer thread / of the consumer thread
ProducerThread == (\E n \in LiveSizes : LiveWCall(n)) \/ WriteStep
ConsumerThread == (\E n \in LiveSizes : LiveRCall(n)) \/ ReadStep

NextLive ==
    \/ \E c \in LiveCapacities : Construct(c)
    \/ \E n \in LiveSizes : LiveWCall(n)
    \/ WAvailLoadWrite
    \/ WAvailLoadRead
    \/ WLoadIndex
    \/ WCopy
    \/ WStore
    \/ WReturn
    \/ \E n \in LiveSizes : LiveRCall(n)
    \/ RAvailLoadWrite
    \/ RAvailLoadRead
    \/ RLoadIndex
    \/ RCopy
    \/ RStore
    \/ RReturn

\* Both threads are scheduled again and again (weak fairness of each
\* thread's next step); neither is ever scheduled in step with the other.
SpecLive ==
    /\ Init
    /\ [][NextLive]_vars
    /\ WF_vars(\E c \in LiveCapacities : Construct(c))
    /\ WF_vars(ProducerThread)
    /\ WF_vars(ConsumerThread)

\* The producer, the consumer and an observer thread that calls the
\* availability queries
NextObserved ==
    \/ \E c \in SmallCapacities : Construct(c)
    \/ \E n \in SmallSizes : WCall(n, MaxSmallTotal)
    \/ WAvailLoadWrite
    \/ WAvailLoadRead
    \/ WLoadIndex
    \/ WCopy
    \/ WStore
    \/ WReturn
    \/ \E n \in SmallSizes : RCall(n)
    \/ RAvailLoadWrite
    \/ RAvailLoadRead
    \/ RLoadIndex
    \/ RCopy
    \/ RStore
    \/ RReturn
    \/ Reset
    \/ \E k \in QueryKinds : OCall(k)
    \/ OLoadWrite
    \/ OLoadRead
    \/ OReturn

SpecObserved == Init /\ [][NextObserved]_vars

(* ======================================================================= *)
(* Properties                                                              *)
(* ======================================================================= *)

\* a mod c for c >= 1, as the specification writes it
Mod(a, c) == ((a % c) + c) % c

IsPrefix(s, t) ==
    /\ Len(s) <= Len(t)
    /\ \A k \in 1 .. Len(s) : s[k] = t[k]

\* Bytes written and not yet read
Unread == Len(produced) - Len(consumed)

\* C1: FIFO integrity under concurrency.  For every capacity >= 2 and in
\* every state of every interleaving of the producer's and the consumer's
\* steps, the bytes returned by read() so far are a prefix of the bytes
\* accepted by write() so far: nothing reordered, duplicated, skipped or
\* corrupted.
C1_FifoPrefix ==
    (phase = "live" /\ capacity_ >= 2) => IsPrefix(consumed, produced)

\* C1 witness: both calls between their first copy and their publish, the write cursor
\* has gone round the storage, and at least three bytes have been returned.
C1_Witness ==
    /\ phase = "live" /\ capacity_ >= 2
    /\ wpc \in {"copy", "store"} /\ wi >= 1
    /\ rpc \in {"copy", "store"} /\ ri >= 1
    /\ sent >= capacity_
    /\ Len(consumed) >= 3

\* C2: cursor and occupancy invariant.  Both cursors stay in
\* [0, capacity); the cursor distance (writeIndex_ - readIndex_) mod capacity
\* is the number of bytes written and not yet read, and it lies in
\* [0, capacity - 1]; so the cursors are equal only when the buffer is
\* empty.  (Capacity is positive, as in the specification's data model.)
C2_CursorOccupancy ==
    (phase = "live" /\ capacity_ >= 1) =>
        /\ writeIndex_ \in 0 .. capacity_ - 1
        /\ readIndex_ \in 0 .. capacity_ - 1
        /\ Mod(writeIndex_ - readIndex_, capacity_) = Unread
        /\ Unread \in 0 .. capacity_ - 1
        /\ (writeIndex_ = readIndex_ => produced = consumed)

\* C2 witness: a full buffer (capacity - 1 unread bytes) whose write cursor
\* has wrapped to sit just behind the read cursor.
C2_Witness ==
    /\ phase = "live" /\ capacity_ >= 3
    /\ Unread = capacity_ - 1
    /\ writeIndex_ < readIndex_
    /\ wpc = "ret" /\ wRet >= 1

\* C3: transfer count and saturation.  write() returns min(size, free) with
\* free = (readIdx - writeIdx - 1) mod capacity taken from the cursors the
\* call loaded, so 0 <= written <= size; when size exceeds that free space
\* and no read has moved readIndex_ meanwhile, it returns the free space and
\* availableWrite() is 0 afterwards; no byte of a write goes to a slot
\* outside [0, capacity) or to a slot holding unread data.  read() returns
\* min(size, availableRead) with availableRead = (writeIdx - readIdx) mod
\* capacity taken from the cursors it loaded.
C3_TransferCount ==
    (phase = "live" /\ capacity_ >= 1) =>
        /\ wpc = "ret" =>
              /\ wRet = Min(wSize, Mod(wAwR - wAwW - 1, capacity_))
              /\ 0 <= wRet /\ wRet <= wSize
              /\ (wSize > wAvail /\ readIndex_ = wAwR) =>
                    /\ wRet = wAvail
                    /\ AvailableWrite(writeIndex_, readIndex_, capacity_) = 0
        /\ wpc = "copy" =>
              /\ WSlot \in 0 .. capacity_ - 1
              /\ Mod(WSlot - readIndex_, capacity_) >= Unread
        /\ rpc = "ret" =>
              /\ rRet = Min(rSize, Mod(rArW - rArR, capacity_))
              /\ 0 <= rRet /\ rRet <= rSize

\* C3 witness: a write asked for more than the free space while the
\* consumer was idle, took what was free (two bytes or more, wrapping) and
\* returned, and the buffer is full.
C3_Witness ==
    /\ phase = "live" /\ capacity_ >= 3
    /\ wpc = "ret" /\ rpc = "idle"
    /\ wSize > wAvail /\ wAvail >= 2
    /\ wRet = wAvail
    /\ wWriteIdx + wRet > capacity_
    /\ readIndex_ = wAwR

\* C4: zero-transfer calls are no-ops.  A read() whose availableRead() is 0
\* returns 0 at once and none of its steps changes readIndex_, writeIndex_,
\* the storage or the destination; a write() whose availableWrite() is 0,
\* or whose size is 0, returns 0 at once and none of its steps changes a
\* cursor or the storage.
C4_ReadStepOfEmpty ==
    /\ rpc \in {"ar_w", "ar_r", "ret"}
    /\ rpc' # rpc
    /\ (IF rpc = "ar_w" THEN AvailableRead(writeIndex_, readIndex_, capacity_)
        ELSE IF rpc = "ar_r" THEN rAvail' ELSE rAvail) = 0

C4_WriteStepOfFull ==
    /\ wpc \in {"aw_w", "aw_r", "ret"}
    /\ wpc' # wpc
    /\ \/ wSize = 0
       \/ (IF wpc = "aw_w" THEN AvailableWrite(writeIndex_, readIndex_, capacity_)
           ELSE IF wpc = "aw_r" THEN wAvail' ELSE wAvail) = 0

C4_ZeroTransferNoOp ==
    [][ (phase = "live" /\ capacity_ >= 1) =>
          /\ C4_ReadStepOfEmpty =>
                /\ UNCHANGED <<readIndex_, writeIndex_, buffer_>>
                /\ rpc' \in {"ar_r", "ret", "idle"}
                /\ rpc' = "ret" => (rRet' = 0 /\ dest' = dest)
                /\ rpc' = "ar_r" => dest' = dest
          /\ C4_WriteStepOfFull =>
                /\ UNCHANGED <<readIndex_, writeIndex_, buffer_>>
                /\ wpc' \in {"aw_r", "ret", "idle"}
                /\ wpc' = "ret" => wRet' = 0
      ]_vars

\* C4 witness: a read of an empty buffer and a write to a full buffer have
\* both returned 0, on a buffer that has seen traffic.
C4_Witness ==
    /\ phase = "live" /\ capacity_ >= 2
    /\ rpc = "ret" /\ rSize >= 1 /\ rAvail = 0 /\ rRet = 0
    /\ wpc = "ret" /\ wSize >= 1 /\ wAvail = 0 /\ wRet = 0
    /\ Len(consumed) >= 1

\* The bytes of the round-trip write, as the input stream gave them
TripBytes == [k \in 1 .. tripN |-> StreamByte(sent - tripN + k)]

\* C5 as claimed: from any quiescent state, writing N <= availableWrite()
\* bytes and reading N bytes right after returns N from both calls and the
\* bytes read are the bytes just written.
C5_RoundTripAnyState ==
    (phase = "live" /\ capacity_ >= 1) =>
        /\ (trip = "write" /\ wpc = "ret") => wRet = tripN
        /\ (trip = "reading" /\ rpc = "ret") =>
              (rRet = tripN /\ SubSeq(dest, 1, rRet) = TripBytes)

\* C5, amended: from any quiescent state the write of N <= availableWrite()
\* bytes returns N; if moreover the buffer was empty (availableRead() = 0)
\* when the round trip started, the read of N right after returns N and its
\* bytes are the bytes just written, byte for byte.
C5_RoundTripFromEmpty ==
    (phase = "live" /\ capacity_ >= 1) =>
        /\ (trip = "write" /\ wpc = "ret") => wRet = tripN
        /\ (trip = "reading" /\ rpc = "ret") => rRet = tripN
        /\ (trip = "reading" /\ rpc = "ret" /\ tripAR = 0) =>
              SubSeq(dest, 1, rRet) = TripBytes

\* C5 witness: a round trip of two bytes or more from an empty buffer whose
\* cursors are not at 0, wrapping over the end of the storage, has returned.
C5_Witness ==
    /\ phase = "live" /\ capacity_ >= 2
    /\ trip = "reading" /\ rpc = "ret"
    /\ tripAR = 0 /\ tripN >= 2
    /\ rReadIdx + tripN > capacity_
    /\ rRet = tripN

\* Number of input bytes accepted before the write() in flight
WBase == IF wpc = "ret" THEN sent - wRet ELSE sent

\* C6: wrap-around copy.  A write of n bytes from cursor w has put input
\* byte i at index (w + i) mod capacity: the first min(n, capacity - w)
\* bytes at w, w+1, ..., the rest at 0, 1, ...; it publishes (w + n) mod
\* capacity.  A read mirrors it.  With capacity 8, after write 6 / read 6,
\* a write of 5 puts 2 bytes at 6..7 and 3 bytes at 0..2 and leaves
\* writeIndex_ = 3, and the read of 5 that follows returns those 5 bytes.
C6_WrapAroundCopy ==
    (phase = "live" /\ capacity_ >= 1) =>
        /\ wpc \in {"copy", "store", "ret"} =>
              /\ \A i \in 0 .. wi - 1 :
                    /\ buffer_[Mod(wWriteIdx + i, capacity_)] = StreamByte(WBase + 1 + i)
                    /\ i < Min(wToWrite, capacity_ - wWriteIdx) =>
                          buffer_[wWriteIdx + i] = StreamByte(WBase + 1 + i)
                    /\ i >= Min(wToWrite, capacity_ - wWriteIdx) =>
                          buffer_[i - (capacity_ - wWriteIdx)] = StreamByte(WBase + 1 + i)
              /\ (wpc = "ret" /\ wRet >= 1) =>
                    (wi = wRet /\ writeIndex_ = Mod(wWriteIdx + wRet, capacity_))
        /\ rpc \in {"copy", "store"} =>
              \A i \in 0 .. ri - 1 :
                 /\ dest[i + 1] = buffer_[Mod(rReadIdx + i, capacity_)]
                 /\ i < Min(rToRead, capacity_ - rReadIdx) =>
                       dest[i + 1] = buffer_[rReadIdx + i]
                 /\ i >= Min(rToRead, capacity_ - rReadIdx) =>
                       dest[i + 1] = buffer_[i - (capacity_ - rReadIdx)]
        /\ (rpc = "ret" /\ rRet >= 1) =>
              (ri = rRet /\ readIndex_ = Mod(rReadIdx + rRet, capacity_))
        /\ (capacity_ = 8 /\ wpc = "ret" /\ wWriteIdx = 6 /\ wRet = 5) =>
              /\ buffer_[6] = StreamByte(WBase + 1)
              /\ buffer_[7] = StreamByte(WBase + 2)
              /\ buffer_[0] = StreamByte(WBase + 3)
              /\ buffer_[1] = StreamByte(WBase + 4)
              /\ buffer_[2] = StreamByte(WBase + 5)
              /\ writeIndex_ = 3
        /\ (capacity_ = 8 /\ rpc = "ret" /\ rReadIdx = 6 /\ rRet = 5 /\ rArW = 3) =>
              /\ SubSeq(dest, 1, 5) = [k \in 1 .. 5 |-> StreamByte(sent - 5 + k)]
              /\ readIndex_ = 3

\* C6 witness: capacity 8, 6 bytes written and read, then 5 bytes written
\* from cursor 6, and the read of 5 has returned.
C6_Witness ==
    /\ phase = "live" /\ capacity_ = 8
    /\ rpc = "ret" /\ rReadIdx = 6 /\ rRet = 5 /\ rArW = 3
    /\ wpc = "idle"
    /\ sent = 11 /\ Len(consumed) = 11
    /\ buffer_[6] = StreamByte(7) /\ buffer_[2] = StreamByte(11)

\* C7: accounting at quiescence.  With no call in flight and capacity >= 1,
\* availableRead() + availableWrite() = capacity - 1, availableRead() =
\* (writeIndex_ - readIndex_) mod capacity and availableWrite() =
\* (readIndex_ - writeIndex_ - 1) mod capacity; and the two functions agree
\* with these formulas on every pair of cursor values in [0, capacity).
C7_Accounting ==
    (Quiescent /\ capacity_ >= 1) =>
        /\ AvailableRead(writeIndex_, readIndex_, capacity_)
             + AvailableWrite(writeIndex_, readIndex_, capacity_) = capacity_ - 1
        /\ AvailableRead(writeIndex_, readIndex_, capacity_) = Unread
        /\ \A w \in 0 .. capacity_ - 1 : \A r \in 0 .. capacity_ - 1 :
              /\ AvailableRead(w, r, capacity_) = Mod(w - r, capacity_)
              /\ AvailableWrite(w, r, capacity_) = Mod(r - w - 1, capacity_)
              /\ AvailableRead(w, r, capacity_) + AvailableWrite(w, r, capacity_)
                   = capacity_ - 1

\* C7 witness: a quiescent buffer whose write cursor has wrapped behind the
\* read cursor, neither empty nor full.
C7_Witness ==
    /\ Quiescent /\ capacity_ >= 4
    /\ writeIndex_ < readIndex_
    /\ AvailableRead(writeIndex_, readIndex_, capacity_) >= 1
    /\ AvailableWrite(writeIndex_, readIndex_, capacity_) >= 1

\* C8: initial state.  For every capacity >= 2 the step that constructs the
\* buffer leaves both cursors 0, capacity storage bytes that are all 0,
\* availableRead() = 0 and availableWrite() = capacity - 1.
C8_InitialState ==
    [][ (phase = "new" /\ phase' = "live" /\ capacity_' >= 2) =>
          /\ writeIndex_' = 0
          /\ readIndex_' = 0
          /\ DOMAIN buffer_' = 0 .. capacity_' - 1
          /\ \A i \in DOMAIN buffer_' : buffer_'[i] = 0
          /\ AvailableRead(writeIndex_', readIndex_', capacity_') = 0
          /\ AvailableWrite(writeIndex_', readIndex_', capacity_') = capacity_' - 1
      ]_vars

\* C8 witness: a buffer of capacity >= 2 that has just been constructed.
C8_Witness ==
    /\ Quiescent /\ capacity_ >= 2
    /\ sent = 0 /\ produced = <<>> /\ consumed = <<>>
    /\ writeIndex_ = 0 /\ readIndex_ = 0
    /\ \A i \in DOMAIN buffer_ : buffer_[i] = 0

\* C9 as claimed: a buffer of capacity 0 or 1 never holds data:
\* availableRead() and availableWrite() are 0 in every state, every write()
\* and every read() returns 0, and nothing is stored.
C9_DegenerateNeverHoldsData ==
    (phase \in {"live", "trap"} /\ capacity_ \in {0, 1}) =>
        /\ AvailableRead(writeIndex_, readIndex_, capacity_) = 0
        /\ AvailableWrite(writeIndex_, readIndex_, capacity_) = 0
        /\ wpc = "ret" => wRet = 0
        /\ rpc = "ret" => rRet = 0
        /\ wpc \notin {"ld", "copy", "store"}
        /\ ~overrun
        /\ phase = "live"
        /\ sent = 0

\* C10: reset() at quiescence.  The reset step leaves writeIndex_ = 0,
\* readIndex_ = 0, every storage byte 0, availableRead() = 0 and
\* availableWrite() = capacity - 1; a read() that follows it before any
\* write() returns 0, and what is read later was written after the reset.
C10_ResetAtQuiescence ==
    /\ [][ (Reset /\ capacity_ >= 1) =>
             /\ writeIndex_' = 0
             /\ readIndex_' = 0
             /\ DOMAIN buffer_' = 0 .. capacity_ - 1
             /\ \A i \in DOMAIN buffer_' : buffer_'[i] = 0
             /\ AvailableRead(writeIndex_', readIndex_', capacity_') = 0
             /\ AvailableWrite(writeIndex_', readIndex_', capacity_') = capacity_ - 1
         ]_vars
    /\ []( (phase = "live" /\ capacity_ >= 1) =>
             /\ (rpc = "ret" /\ produced = <<>>) =>
                   (rRet = 0 /\ \A k \in DOMAIN dest : dest[k] = 0)
             /\ IsPrefix(consumed, produced) )

\* C10 witness: a buffer that had been written to was reset, and the read()
\* of one byte or more that followed has returned 0.
C10_Witness ==
    /\ phase = "live" /\ capacity_ >= 2
    /\ sent >= 2 /\ Len(produced) = 0
    /\ \E i \in DOMAIN buffer_ : TRUE
    /\ \A i \in DOMAIN buffer_ : buffer_[i] = 0
    /\ rpc = "ret" /\ rSize >= 1 /\ rRet = 0
    /\ wpc = "idle"


(* ----------------------------------------------------------------------- *)
\* A step of the producer thread / of the consumer thread
WStep == wVars' # wVars
RStep == rVars' # rVars

\* C11: single writer per cursor.  On a buffer of capacity >= 1 a step of
\* write() leaves readIndex_ alone, a step of read() leaves writeIndex_ and
\* every storage byte alone, the two availability loads inside either call
\* change nothing but the caller's own locals, writeIndex_ changes only at
\* the publish step of write() or at reset(), and readIndex_ only at the
\* publish step of read() or at reset().
C11_SingleWriterPerCursor ==
    [][ (phase = "live" /\ capacity_ >= 1) =>
          /\ WStep => readIndex_' = readIndex_
          /\ RStep => writeIndex_' = writeIndex_ /\ buffer_' = buffer_
          /\ (wpc \in {"aw_w", "aw_r"} /\ WStep) => UNCHANGED <<bufVars, histVars, rVars>>
          /\ (rpc \in {"ar_w", "ar_r"} /\ RStep) => UNCHANGED <<bufVars, histVars, wVars>>
          /\ writeIndex_' # writeIndex_ =>
                \/ wpc = "store" /\ wpc' = "ret"
                \/ Quiescent /\ ~WStep /\ ~RStep /\ writeIndex_' = 0
          /\ readIndex_' # readIndex_ =>
                \/ rpc = "store" /\ rpc' = "ret"
                \/ Quiescent /\ ~WStep /\ ~RStep /\ readIndex_' = 0
      ]_vars

\* Both threads have published, over a buffer that has wrapped.
C11_Witness ==
    /\ phase = "live" /\ capacity_ >= 2
    /\ wpc = "ret" /\ wRet >= 1 /\ writeIndex_ < wWriteIdx
    /\ rpc = "ret" /\ rRet >= 1


(* ----------------------------------------------------------------------- *)
\* C12 as stated: a call makes at most two cursor loads, `transferred
\* count` byte copies and one cursor store.
C12_AtMostTwoLoads ==
    (phase = "live" /\ capacity_ >= 1) =>
        /\ wLoads <= 2 /\ wCopies <= wToWrite /\ wStores <= 1
        /\ rLoads <= 2 /\ rCopies <= rToRead /\ rStores <= 1

\* C12, amended: on a buffer of capacity >= 1 a call in flight can always
\* take its next step whatever the other thread is doing, every step it
\* takes is one more load, byte copy or store, and it makes at most three
\* cursor loads, `transferred count` byte copies and one cursor store; a
\* call that has returned a count made exactly that many copies.
C12_NonBlocking ==
    /\ []( (phase = "live" /\ capacity_ >= 1) =>
             /\ wpc \in InCall => ENABLED WriteStep
             /\ rpc \in InCall => ENABLED ReadStep
             /\ wLoads <= 3 /\ wCopies <= wToWrite /\ wToWrite <= wSize /\ wStores <= 1
             /\ rLoads <= 3 /\ rCopies <= rToRead /\ rToRead <= rSize /\ rStores <= 1
             /\ wpc = "ret" => /\ wCopies = wRet
                                /\ wLoads = (IF wRet = 0 THEN 2 ELSE 3)
                                /\ wStores = (IF wRet = 0 THEN 0 ELSE 1)
             /\ rpc = "ret" => /\ rCopies = rRet
                                /\ rLoads = (IF rRet = 0 THEN 2 ELSE 3)
                                /\ rStores = (IF rRet = 0 THEN 0 ELSE 1) )
    /\ [][ (phase = "live" /\ capacity_ >= 1) =>
             /\ (WStep /\ wpc \in InCall \ {"ret"}) =>
                    wLoads' + wCopies' + wStores' = wLoads + wCopies + wStores + 1
             /\ (RStep /\ rpc \in InCall \ {"ret"}) =>
                    rLoads' + rCopies' + rStores' = rLoads + rCopies + rStores + 1
       ]_vars

\* A write() that transferred bytes has returned, after three loads, while
\* the consumer is stopped in the middle of its own copy.
C12_Witness ==
    /\ phase = "live" /\ capacity_ >= 2
    /\ wpc = "ret" /\ wRet >= 1 /\ wLoads = 3 /\ wCopies = wRet /\ wStores = 1
    /\ rpc = "copy" /\ ri >= 1


(* ----------------------------------------------------------------------- *)
\* C13: only construction can fail.  The failure is a step out of the
\* not-yet-constructed state that leaves nothing behind: the handle is
\* null, there is no capacity, storage, cursor or call, and nothing can be
\* done afterwards.  On a buffer created with capacity >= 1 there is never
\* an error outcome: the process never traps, no copy leaves the storage,
\* and every returned value is a count between 0 and the requested size.
C13_OnlyConstructionFails ==
    /\ [][ (phase' = "failed" /\ phase # "failed") =>
             /\ phase = "new"
             /\ UNCHANGED <<capacity_, buffer_, writeIndex_, readIndex_, overrun,
                            wVars, rVars, histVars>>
       ]_vars
    /\ []( phase = "failed" =>
             /\ Handle = "null"
             /\ capacity_ = 0 /\ buffer_ = <<>>
             /\ writeIndex_ = 0 /\ readIndex_ = 0
             /\ WIdle /\ RIdle
             /\ ~ENABLED Next )
    /\ []( capacity_ >= 1 =>
             /\ phase = "live" /\ Handle = "object" /\ ~overrun
             /\ DOMAIN buffer_ = 0 .. capacity_ - 1
             /\ wpc = "ret" => wRet \in 0 .. wSize
             /\ rpc = "ret" => rRet \in 0 .. rSize )

\* The allocation has failed: circular_buffer_create returned null.
C13_Witness ==
    /\ phase = "failed" /\ Handle = "null"
    /\ capacity_ = 0 /\ buffer_ = <<>>


(* ----------------------------------------------------------------------- *)
\* The position in the input stream of the oldest byte not yet read
ReadBase == sent - Len(produced) + Len(consumed)

\* Every slot of the circular range [readIndex_, upTo) holds the stream
\* byte that was written there for the consumer to read
HoldsFinalBytes(upTo) ==
    \A j \in 0 .. Mod(upTo - readIndex_, capacity_) - 1 :
        buffer_[Mod(readIndex_ + j, capacity_)] = StreamByte(ReadBase + j + 1)

\* A step of reset(): nothing in flight before or after, cursors to 0
ResetStep == Quiescent /\ ~WStep /\ ~RStep

\* C14: copy, then publish.  On a buffer of capacity >= 1: (1) whatever
\* writeIndex_ value the consumer can load or has loaded, every slot from
\* readIndex_ up to it holds its final written byte; (2) write() stores
\* writeIndex_ only when all toWrite bytes are in storage, and nothing but
\* the return follows the store; (3) read() stores readIndex_ only when all
\* toRead bytes are in the caller's array.
C14_CopyThenPublish ==
    /\ []( (phase = "live" /\ capacity_ >= 1) =>
             /\ HoldsFinalBytes(writeIndex_)
             /\ rpc \in {"ar_r", "ld", "copy", "store"} => HoldsFinalBytes(rArW) )
    /\ [][ (phase = "live" /\ capacity_ >= 1 /\ ~ResetStep) =>
             /\ writeIndex_' # writeIndex_ =>
                   /\ wpc = "store" /\ wpc' = "ret"
                   /\ wi = wToWrite /\ wCopies = wToWrite
                   /\ \A i \in 0 .. wToWrite - 1 :
                         buffer_[SlotOf(wWriteIdx, wFirstChunk, i)] = StreamByte(sent + 1 + i)
             /\ readIndex_' # readIndex_ =>
                   /\ rpc = "store" /\ rpc' = "ret"
                   /\ ri = rToRead /\ rCopies = rToRead
                   /\ SubSeq(dest, 1, rToRead)
                        = SubSeq(produced, Len(consumed) + 1, Len(consumed) + rToRead)
       ]_vars

\* The consumer has loaded a writeIndex_ that covers two unread bytes while
\* the producer has copied, and not yet published, a further byte.
C14_Witness ==
    /\ phase = "live" /\ capacity_ >= 1
    /\ rpc = "ar_r" /\ Mod(rArW - readIndex_, capacity_) >= 2
    /\ wpc \in {"copy", "store"} /\ wi >= 1
    /\ buffer_[SlotOf(wWriteIdx, wFirstChunk, 0)] = StreamByte(sent + 1)


(* ----------------------------------------------------------------------- *)
\* The storage indices the memcpy calls of the write() in flight store to
WriteRegion ==
    IF wpc \in {"copy", "store"}
    THEN {SlotOf(wWriteIdx, wFirstChunk, i) : i \in 0 .. wToWrite - 1}
    ELSE {}

\* The storage indices the memcpy calls of the read() in flight load from
ReadRegion ==
    IF rpc \in {"copy", "store"}
    THEN {SlotOf(rReadIdx, rFirstChunk, i) : i \in 0 .. rToRead - 1}
    ELSE {}

\* The storage indices that hold unread bytes
UnreadSlots ==
    {Mod(readIndex_ + j, capacity_) :
        j \in 0 .. Mod(writeIndex_ - readIndex_, capacity_) - 1}

\* C15: region exclusivity.  On a buffer of capacity >= 2, in every
\* interleaving, the indices the write() in flight stores to are disjoint
\* from the indices the read() in flight loads from and from the indices
\* that hold unread bytes, all of them lie inside the storage, and the two
\* threads never touch the same slot in their next copy steps.
C15_RegionExclusivity ==
    (phase = "live" /\ capacity_ >= 2) =>
        /\ WriteRegion \cap ReadRegion = {}
        /\ WriteRegion \cap UnreadSlots = {}
        /\ ReadRegion \subseteq UnreadSlots
        /\ WriteRegion \cup ReadRegion \subseteq DOMAIN buffer_
        /\ (wpc = "copy" /\ rpc = "copy") => WSlot # RSlot

\* Both copies are under way, the consumer's from a stale view of
\* writeIndex_, and the buffer has wrapped.
C15_Witness ==
    /\ phase = "live" /\ capacity_ >= 2
    /\ wpc = "copy" /\ rpc = "copy"
    /\ rArW # writeIndex_
    /\ writeIndex_ < readIndex_


(* ----------------------------------------------------------------------- *)
\* C16: reset() is unsafe under concurrency.  With a thread that calls
\* reset() at any moment, FIFO integrity and reset()'s postcondition are
\* lost in some interleaving (C16_Witness), and they are lost only there:
\* as long as no reset() has overlapped a write() or read() call, the bytes
\* read are a prefix of the bytes written, the cursors outside a reset()
\* account for the unread bytes, and every reset() returns with both
\* cursors 0 over zero-filled storage.
C16_ResetOnlySafeAtQuiescence ==
    /\ []( (phase = "live" /\ ~raced) =>
             /\ IsPrefix(consumed, produced)
             /\ xpc \in {"idle", "done"} =>
                   /\ Mod(writeIndex_ - readIndex_, capacity_) = Unread
                   /\ HoldsFinalBytes(writeIndex_) )
    /\ [][ (phase = "live" /\ xpc = "ms" /\ xpc' = "done" /\ ~raced') =>
             /\ writeIndex_' = 0 /\ readIndex_' = 0
             /\ buffer_' = ZeroFill(capacity_)
             /\ AvailableRead(writeIndex_', readIndex_', capacity_) = 0
       ]_vars

\* reset() ran while a write() was between its cursor load and its cursor
\* store: reset() has returned, writeIndex_ is non-zero over zero-filled
\* storage, and a read() has returned a byte that was never written.
C16_Witness ==
    /\ phase = "live" /\ raced /\ xpc = "done"
    /\ wpc = "ret" /\ wRet >= 1
    /\ writeIndex_ # 0 /\ buffer_ = ZeroFill(capacity_)
    /\ rpc = "ret" /\ rRet >= 1 /\ dest[1] = 0
    /\ ~IsPrefix(consumed, produced)


(* ----------------------------------------------------------------------- *)
\* C17: own-side availability is a safe lower bound.  On a buffer of
\* capacity >= 1, with k the producer's last availableWrite() result since
\* its last write(): the free space is at least k until the producer's own
\* next publish, whatever the consumer does, and a write() of n <= k bytes
\* returns n.  Symmetrically for the consumer, availableRead() and read().
C17_OwnSideLowerBound ==
    (phase = "live" /\ capacity_ >= 1) =>
        /\ wpc # "ret" =>
              /\ wSeen <= capacity_ - 1 - Unread
              /\ wSeen <= AvailableWrite(writeIndex_, readIndex_, capacity_)
        /\ (wpc = "ret" /\ wSize <= wSeen) => wRet = wSize
        /\ rpc # "ret" =>
              /\ rSeen <= Unread
              /\ rSeen <= AvailableRead(writeIndex_, readIndex_, capacity_)
        /\ (rpc = "ret" /\ rSize <= rSeen) => rRet = rSize

\* A write() sized by an earlier availableWrite() has returned in full;
\* a read() published between the query and the write, so the write itself
\* saw more free space than the query had.
C17_Witness ==
    /\ phase = "live" /\ capacity_ >= 2
    /\ wpc = "ret" /\ wSize >= 1 /\ wSize <= wSeen /\ wRet = wSize
    /\ wAvail > wSeen
    /\ writeIndex_ < wWriteIdx


(* ----------------------------------------------------------------------- *)
\* The whole input stream
WholeStream == [k \in 1 .. MaxSmallTotal |-> StreamByte(k)]

\* C18: progress.  On a buffer of capacity >= 2 the cursors never show the
\* buffer full to the producer and empty to the consumer at once, so a
\* write() or a read() of at least one byte would transfer a byte; and
\* with both threads scheduled fairly, a producer that keeps writing what
\* is left of the stream and a consumer that keeps reading end up with
\* every byte of the stream read, in order.
C18_Progress ==
    /\ []( (phase = "live" /\ capacity_ >= 2) =>
             \/ TransferCount(1, AvailableWrite(writeIndex_, readIndex_, capacity_)) >= 1
             \/ TransferCount(1, AvailableRead(writeIndex_, readIndex_, capacity_)) >= 1 )
    /\ <>[](consumed = WholeStream)

\* Over a buffer with one usable byte the whole stream has been read; the
\* last read() has just returned its byte.
C18_Witness ==
    /\ phase = "live" /\ capacity_ = 2
    /\ consumed = WholeStream
    /\ sent = MaxSmallTotal
    /\ rpc = "ret" /\ rRet >= 1


(* ----------------------------------------------------------------------- *)
\* C19: availability queries stay in range under torn snapshots.  On a
\* buffer of capacity >= 1 both cursors are always in 0 .. capacity_ - 1,
\* both queries map every pair of such cursor values into
\* 0 .. capacity_ - 1 without wrapping below 0, and so does every value a
\* query has returned to an observer, or computed inside write() or
\* read(), whatever was published between its two loads.
C19_QueriesInRange ==
    (phase = "live" /\ capacity_ >= 1) =>
        /\ writeIndex_ \in 0 .. capacity_ - 1
        /\ readIndex_ \in 0 .. capacity_ - 1
        /\ \A w \in 0 .. capacity_ - 1 : \A r \in 0 .. capacity_ - 1 :
              /\ AvailableRead(w, r, capacity_) \in 0 .. capacity_ - 1
              /\ AvailableWrite(w, r, capacity_) \in 0 .. capacity_ - 1
        /\ opc = "ld_r" => oW \in 0 .. capacity_ - 1
        /\ opc = "ret" => oRet \in 0 .. capacity_ - 1
        /\ wpc \in {"ld", "copy", "store", "ret"} => wAvail \in 0 .. capacity_ - 1
        /\ rpc \in {"ld", "copy", "store", "ret"} => rAvail \in 0 .. capacity_ - 1

\* An observer's availableRead() has returned from a torn snapshot: a
\* cursor was published between its two loads, and the value it reports
\* is more than the number of bytes ever written.
C19_Witness ==
    /\ phase = "live" /\ capacity_ >= 1
    /\ opc = "ret" /\ oKind = "read" /\ oTorn
    /\ oRet > sent
    /\ oRet \in 0 .. capacity_ - 1

====
